---- MODULE Spec2Model ----
(***************************************************************************)
(* FeedbackModal.tsx: the feedback dialog of the web client.               *)
(*                                                                         *)
(* State: the component's two hooks (email, permissions), what it renders  *)
(* into the Share action (isDisabled), the isOpen prop, the browser's      *)
(* localStorage, and one entry per invocation of handleSendFeedback.       *)
(* Strings that the code inspects character by character (the email) are   *)
(* sequences of one-character strings; all other strings are TLA+ strings. *)
(***************************************************************************)
EXTENDS Integers, Sequences, FiniteSets, TLC

VARIABLES
    email,          \* React state, line 39
    permissions,    \* React state, lines 40-42
    shareDisabled,  \* the isDisabled prop last rendered into the Share action
    polarity,       \* prop, line 31
    isOpen,         \* prop, line 32, owned by the caller
    closedBy,       \* which footer action closed the dialog last
    localStorage,   \* function from the keys present to their values
    submits,        \* one record per invocation of handleSendFeedback
    probe,          \* input of the validity predicate under SpecValid
    verdict         \* its result under SpecValid

vars == <<email, permissions, shareDisabled, polarity, isOpen, closedBy,
          localStorage, submits, probe, verdict>>

-----------------------------------------------------------------------------
(* Bounds *)

MaxLen == 5        \* longest string given to isEmailValid under SpecValid
MaxSubmits == 2    \* invocations of handleSendFeedback in one behaviour

-----------------------------------------------------------------------------
(* Strings *)

Whitespace == {" ", "\t"}
Chars == {"a", "@", "."} \cup Whitespace

Strs(n) == UNION {[1..k -> Chars] : k \in 0..n}

\* the values typed into the email field in the dialog specification
EmailInputs ==
    { <<"a", "@", "a">>,
      <<"a", "@", "a", ".", "a">>,
      <<"a", "a", "@", "a", ".", "a">> }

-----------------------------------------------------------------------------
(* isEmailValid: /^[^\s@]+@[^\s@]+\.[^\s@]+$/.test(email)                  *)
(* The regular expression as the automaton a matcher runs: one state per   *)
(* position in the pattern, the set of live states advanced per character. *)

\* the class [^\s@]
NotSpaceNotAt(c) == c \notin Whitespace /\ c # "@"

RegexStep(q, c) ==
    CASE q = "start"  -> IF NotSpaceNotAt(c) THEN {"local"} ELSE {}
      [] q = "local"  -> (IF NotSpaceNotAt(c) THEN {"local"} ELSE {})
                         \cup (IF c = "@" THEN {"at"} ELSE {})
      [] q = "at"     -> IF NotSpaceNotAt(c) THEN {"domain"} ELSE {}
      [] q = "domain" -> (IF NotSpaceNotAt(c) THEN {"domain"} ELSE {})
                         \cup (IF c = "." THEN {"dot"} ELSE {})
      [] q = "dot"    -> IF NotSpaceNotAt(c) THEN {"tld"} ELSE {}
      [] q = "tld"    -> IF NotSpaceNotAt(c) THEN {"tld"} ELSE {}

RECURSIVE RegexRun(_, _)
RegexRun(live, s) ==
    IF s = <<>> THEN live
    ELSE RegexRun(UNION {RegexStep(q, Head(s)) : q \in live}, Tail(s))

\* faulty variant: the pattern without its final \.[^\s@]+
isEmailValidWithoutTld(s) == RegexRun({"start"}, s) \cap {"domain", "tld"} # {}

isEmailValid(s) == "tld" \in RegexRun({"start"}, s)

-----------------------------------------------------------------------------
(* Constants of the component *)

VIEWER_PAGE == "https://www.all-hands.dev/share"
FEEDBACK_VERSION == "1.0"
FAILED_TO_SHARE == "FEEDBACK$FAILED_TO_SHARE"
Polarities == {"positive", "negative"}
Permissions == {"public", "private"}

\* const { events } = useSocket(): the recorded session events, each the set
\* of keys it carries
events == << {"action", "api_key"}, {"observation", "status"} >>

-----------------------------------------------------------------------------
(* localStorage *)

HasItem(store, key) == key \in DOMAIN store

SetItem(store, key, value) ==
    [k \in DOMAIN store \cup {key} |-> IF k = key THEN value ELSE store[k]]

NoItems == [k \in {} |-> ""]

\* every content of the two keys the component uses
Stores ==
    LET withEmail == {SetItem(NoItems, "feedback-email", e) : e \in EmailInputs}
        emails    == {NoItems} \cup withEmail
    IN  emails \cup {SetItem(s, "token", "tok") : s \in emails}

\* useEffect on mount: if (storedEmail) setEmail(storedEmail), over useState("")
MountedEmail(store) ==
    IF HasItem(store, "feedback-email") /\ store["feedback-email"] # <<>>
    THEN store["feedback-email"]
    ELSE <<>>

\* getToken() of #/services/auth: the stored credential, "" when there is none
getToken(store) == IF HasItem(store, "token") THEN store["token"] ELSE ""

\* const token = localStorage.getItem("token"); if (token) ...
TokenIsTruthy(store) == HasItem(store, "token") /\ store["token"] # ""

\* removeApiKey(removeUnwantedKeys(events)) of #/utils/utils
removeUnwantedKeys(evs) == [i \in DOMAIN evs |-> evs[i] \ {"status"}]
removeApiKey(evs) == [i \in DOMAIN evs |-> evs[i] \ {"api_key"}]

-----------------------------------------------------------------------------
(* Rendering and toasts *)

\* faulty variant: only the empty field disables the action
IsDisabledWhenEmpty(e) == e = <<>>

\* isDisabled: !isEmailValid(email)
IsDisabled(e) == ~isEmailValid(e)

Toast(kind, id, text, link, password) ==
    [kind |-> kind, id |-> id, text |-> text, link |-> link,
     password |-> password]

\* shareFeedbackToast(message, link, password)
shareFeedbackToast(message, link, password) ==
    Toast("share", "", message, link, password)

\* toast.error("share-error", `${t(FAILED_TO_SHARE)} ${description}`)
ErrorToast(description) ==
    Toast("error", "share-error", FAILED_TO_SHARE \o " " \o description, "", "")

\* `${VIEWER_PAGE}?share_id=${feedbackId}`
ShareLink(feedbackId) == VIEWER_PAGE \o "?share_id=" \o feedbackId

\* faulty variant: the status code is not looked at
HandleResponseAsSuccess(response) ==
    << shareFeedbackToast(response.body.message,
                          ShareLink(response.body.feedback_id),
                          response.body.password) >>

\* the branch on response.statusCode after the await
HandleResponse(response) ==
    IF response.statusCode = 200
    THEN << shareFeedbackToast(response.body.message,
                               ShareLink(response.body.feedback_id),
                               response.body.password) >>
    ELSE << ErrorToast(response.body.message) >>

Body(message, feedbackId, password) ==
    [message |-> message, feedback_id |-> feedbackId, password |-> password]

\* what OpenHands.sendFeedback resolves with
Responses ==
    { [statusCode |-> 200, body |-> Body("ok", "abc123", "p@ss")],
      [statusCode |-> 500, body |-> Body("server error", "", "")] }

\* what it rejects with, stringified
Rejections == {"Error: Network Error"}

\* String(error) of the error a step of handleSendFeedback throws
ErrorOf(step) == "Error: " \o step

-----------------------------------------------------------------------------
(* handleSendFeedback *)

\* faulty variant: the credential is read before the email is persisted
StepsTokenFirst ==
    << "onSendFeedback", "getToken", "removeApiKey",
       "getItem", "setItem", "sendFeedback" >>

\* the side effects of one invocation, in program order
Steps ==
    << "onSendFeedback", "getToken", "removeApiKey",
       "setItem", "getItem", "sendFeedback" >>

StepIndex(step) == CHOOSE k \in DOMAIN Steps : Steps[k] = step

\* the steps completed before `step`
Before(step) == SubSeq(Steps, 1, StepIndex(step) - 1)

\* the steps that can throw before the await
ThrowPoints == {"onSendFeedback", "getToken", "removeApiKey", "setItem", "getItem"}

\* faulty variant: try opens one statement later
InTryAfterSetItem(step) == step \in {"getItem", "sendFeedback"}

\* the steps inside try { ... }
InTry(step) == step \in {"setItem", "getItem", "sendFeedback"}

\* faulty variant: the sharing preference is not read from the state
FeedbackAlwaysPrivate(pol, em, perm, tok, evs) ==
    [version |-> FEEDBACK_VERSION, feedback |-> pol, email |-> em,
     permissions |-> "private", token |-> tok,
     trajectory |-> removeApiKey(removeUnwantedKeys(evs))]

\* const feedback: Feedback = { ... }
Feedback(pol, em, perm, tok, evs) ==
    [version |-> FEEDBACK_VERSION, feedback |-> pol, email |-> em,
     permissions |-> perm, token |-> tok,
     trajectory |-> removeApiKey(removeUnwantedKeys(evs))]

Entry(effects, threw, record, call, status, toasts) ==
    [effects |-> effects, threw |-> threw, record |-> record, call |-> call,
     status |-> status, response |-> <<>>, toasts |-> toasts]

\* faulty variant: a missing credential is reported to the user
SkippedCallWithToast(fb) ==
    Entry(Before("sendFeedback"), "none", <<fb>>, <<>>, "resolved",
          << ErrorToast("no token") >>)

\* if (token) { ... } with no else: nothing is called, nothing is shown
SkippedCall(fb) ==
    Entry(Before("sendFeedback"), "none", <<fb>>, <<>>, "resolved", <<>>)

\* the invocation up to its first await (or its end), throwing at throwAt
Invocation(throwAt) ==
    LET fb == Feedback(polarity, email, permissions, getToken(localStorage), events)
    IN  IF throwAt \in ThrowPoints /\ ~InTry(throwAt)
        THEN \* thrown outside try: the async function's promise rejects
             Entry(Before(throwAt), throwAt, <<>>, <<>>, "rejected", <<>>)
        ELSE IF throwAt \in ThrowPoints
        THEN \* thrown inside try: the catch clause shows the error toast
             Entry(Before(throwAt), throwAt, <<fb>>, <<>>, "resolved",
                   << ErrorToast(ErrorOf(throwAt)) >>)
        ELSE IF TokenIsTruthy(localStorage)
        THEN Entry(Steps, "none", <<fb>>,
                   << [token |-> localStorage["token"], feedback |-> fb] >>,
                   "pending", <<>>)
        ELSE SkippedCall(fb)

\* faulty variant: the email is persisted only when a call is made
StoreAfterOnlyWithToken(throwAt) ==
    IF throwAt \in {"onSendFeedback", "getToken", "removeApiKey", "setItem"}
       \/ ~TokenIsTruthy(localStorage)
    THEN localStorage
    ELSE SetItem(localStorage, "feedback-email", email)

\* localStorage.setItem("feedback-email", email)
StoreAfter(throwAt) ==
    IF throwAt \in {"onSendFeedback", "getToken", "removeApiKey", "setItem"}
    THEN localStorage
    ELSE SetItem(localStorage, "feedback-email", email)

handleSendFeedback(throwAt) ==
    /\ submits' = Append(submits, Invocation(throwAt))
    /\ localStorage' = StoreAfter(throwAt)

\* the continuation after `await OpenHands.sendFeedback(token, feedback)`
AfterResponse(entry, response) ==
    [entry EXCEPT !.status = "resolved", !.response = <<response>>,
                  !.toasts = HandleResponse(response)]

\* faulty variant: a rejected call is swallowed
AfterRejectionSilent(entry, error) ==
    [entry EXCEPT !.status = "resolved", !.threw = "sendFeedback"]

\* the catch clause, reached from a rejected call
AfterRejection(entry, error) ==
    [entry EXCEPT !.status = "resolved", !.threw = "sendFeedback",
                  !.toasts = << ErrorToast(error) >>]

-----------------------------------------------------------------------------
(* BaseModal: a footer action runs its handler and, with closeAfterAction,  *)
(* asks the caller to close the dialog                                     *)

closeAfterAction(label) ==
    /\ isOpen' = FALSE
    /\ closedBy' = label

-----------------------------------------------------------------------------
(* Actions *)

Init ==
    /\ localStorage \in Stores
    /\ polarity \in Polarities
    /\ email = MountedEmail(localStorage)
    /\ permissions = "private"
    /\ shareDisabled = IsDisabled(email)
    /\ isOpen = TRUE
    /\ closedBy = "none"
    /\ submits = <<>>
    /\ probe = <<>>
    /\ verdict = "unset"

\* a fresh instance of the component is mounted
Mount ==
    /\ email' = MountedEmail(localStorage)
    /\ permissions' = "private"
    /\ shareDisabled' = IsDisabled(email')
    /\ UNCHANGED <<polarity, isOpen, closedBy, localStorage, submits, probe, verdict>>

\* the caller opens the dialog again
Open ==
    /\ ~isOpen
    /\ isOpen' = TRUE
    /\ closedBy' = "none"
    /\ UNCHANGED <<email, permissions, shareDisabled, polarity, localStorage,
                   submits, probe, verdict>>

\* handleEmailChange(newEmail)
updateEmail(newEmail) ==
    /\ isOpen
    /\ email' = newEmail
    /\ shareDisabled' = IsDisabled(email')
    /\ UNCHANGED <<permissions, polarity, isOpen, closedBy, localStorage,
                   submits, probe, verdict>>

\* onValueChange of the radio group
updatePermissions(newValue) ==
    /\ isOpen
    /\ permissions' = newValue
    /\ UNCHANGED <<email, shareDisabled, polarity, isOpen, closedBy,
                   localStorage, submits, probe, verdict>>

\* the Share action is pressed
PressShare(throwAt) ==
    /\ isOpen
    /\ ~shareDisabled
    /\ Len(submits) < MaxSubmits
    /\ handleSendFeedback(throwAt)
    /\ closeAfterAction("share")
    /\ UNCHANGED <<email, permissions, shareDisabled, polarity, probe, verdict>>

\* the Cancel action is pressed
PressCancel ==
    /\ isOpen
    /\ closeAfterAction("cancel")
    /\ UNCHANGED <<email, permissions, shareDisabled, polarity, localStorage,
                   submits, probe, verdict>>

\* faulty variant: a failure response re-opens the dialog for a retry
ResolveReopening(i, response) ==
    /\ submits[i].status = "pending"
    /\ submits' = [submits EXCEPT ![i] = AfterResponse(submits[i], response)]
    /\ isOpen' = IF response.statusCode = 200 THEN isOpen ELSE TRUE
    /\ closedBy' = IF response.statusCode = 200 THEN closedBy ELSE "none"
    /\ UNCHANGED <<email, permissions, shareDisabled, polarity,
                   localStorage, probe, verdict>>

\* the call of submit i resolves with a response
Resolve(i, response) ==
    /\ submits[i].status = "pending"
    /\ submits' = [submits EXCEPT ![i] = AfterResponse(submits[i], response)]
    /\ UNCHANGED <<email, permissions, shareDisabled, polarity, isOpen,
                   closedBy, localStorage, probe, verdict>>

\* the call of submit i rejects
Reject(i, error) ==
    /\ submits[i].status = "pending"
    /\ submits' = [submits EXCEPT ![i] = AfterRejection(submits[i], error)]
    /\ UNCHANGED <<email, permissions, shareDisabled, polarity, isOpen,
                   closedBy, localStorage, probe, verdict>>

Next ==
    \/ Mount
    \/ Open
    \/ \E e \in EmailInputs : updateEmail(e)
    \/ \E p \in Permissions : updatePermissions(p)
    \/ \E t \in ThrowPoints \cup {"none"} : PressShare(t)
    \/ PressCancel
    \/ \E i \in DOMAIN submits, r \in Responses : Resolve(i, r)
    \/ \E i \in DOMAIN submits, e \in Rejections : Reject(i, e)

Spec == Init /\ [][Next]_vars

-----------------------------------------------------------------------------
(* The validity predicate on its own: every string up to MaxLen *)

InitValid ==
    /\ probe \in Strs(MaxLen)
    /\ verdict = "unset"
    /\ localStorage = NoItems
    /\ polarity = "positive"
    /\ email = MountedEmail(localStorage)
    /\ permissions = "private"
    /\ shareDisabled = IsDisabled(email)
    /\ isOpen = TRUE
    /\ closedBy = "none"
    /\ submits = <<>>

Validate ==
    /\ verdict = "unset"
    /\ verdict' = IF isEmailValid(probe) THEN "valid" ELSE "invalid"
    /\ UNCHANGED <<email, permissions, shareDisabled, polarity, isOpen,
                   closedBy, localStorage, submits, probe>>

NextValid == Validate

SpecValid == InitValid /\ [][NextValid]_vars

-----------------------------------------------------------------------------
(* Properties *)

Submit(i) == submits[i]
Last(seq) == seq[Len(seq)]
\* this step is an invocation of handleSendFeedback
Submitted == Len(submits') = Len(submits) + 1
\* this step runs the continuation of submit i
Settled(i) == submits[i].status = "pending" /\ submits'[i].status = "resolved"
IsErrorToast(toast) == toast.kind = "error" /\ toast.id = "share-error"
EndedInError(i) ==
    \/ Submit(i).threw # "none"
    \/ \E k \in DOMAIN Submit(i).response : Submit(i).response[k].statusCode # 200

\* C1: the Share action is disabled exactly when the current email fails
\* isEmailValid, so every feedback record a submit assembled carries an
\* email that passes isEmailValid.
C1_ShareDisabledIffInvalid ==
    /\ shareDisabled <=> ~isEmailValid(email)
    /\ \A i \in DOMAIN submits : \A k \in DOMAIN Submit(i).record :
          isEmailValid(Submit(i).record[k].email)

\* C1 witness: a submit was made, and an edit has since left a non-empty
\* invalid email in the field, with the action disabled.
C1_Witness ==
    /\ Len(submits) > 0
    /\ Submit(1).record # <<>>
    /\ email # <<>>
    /\ shareDisabled

\* the shape C2 states: local part and domain of characters that are neither
\* whitespace nor "@", the final part (after the "." at position j) only
\* required to hold no whitespace
ShapeAsClaimed(s) ==
    \E i, j \in DOMAIN s :
        /\ 1 < i /\ i + 1 < j /\ j < Len(s)
        /\ s[i] = "@" /\ s[j] = "."
        /\ \A k \in 1..(i - 1) : s[k] \notin {" ", "\t", "@"}
        /\ \A k \in (i + 1)..(j - 1) : s[k] \notin {" ", "\t", "@"}
        /\ \A k \in (j + 1)..Len(s) : s[k] \notin {" ", "\t"}

\* the same shape with the final part also free of "@"
ShapeWithPlainTld(s) ==
    \E i, j \in DOMAIN s :
        /\ 1 < i /\ i + 1 < j /\ j < Len(s)
        /\ s[i] = "@" /\ s[j] = "."
        /\ \A k \in 1..(i - 1) : s[k] \notin {" ", "\t", "@"}
        /\ \A k \in (i + 1)..(j - 1) : s[k] \notin {" ", "\t", "@"}
        /\ \A k \in (j + 1)..Len(s) : s[k] \notin {" ", "\t", "@"}

\* C2 as stated: isEmailValid(s) holds iff s has the stated shape, whose
\* final part is only required to be non-space.
C2_AsClaimed ==
    verdict # "unset" => (verdict = "valid" <=> ShapeAsClaimed(probe))

\* C2 amended: isEmailValid(s) holds iff s is one or more characters that are
\* neither whitespace nor "@", then "@", then one or more such characters,
\* then ".", then one or more characters that are neither whitespace nor "@".
C2_ValidIffShape ==
    verdict # "unset" => (verdict = "valid" <=> ShapeWithPlainTld(probe))

\* C2 witness: a string of the stated shape with an "@" in its final part
\* has been judged, and rejected.
C2_Witness ==
    /\ verdict = "invalid"
    /\ ShapeAsClaimed(probe)

\* C3 as stated: with nothing stored under "token", a submit makes no call
\* and shows no toast of any kind.
C3_AsClaimed ==
    ~HasItem(localStorage, "token") =>
        \A i \in DOMAIN submits :
            Submit(i).call = <<>> /\ Submit(i).toasts = <<>>

\* C3 amended: with nothing stored under "token", a submit makes no call and
\* shows no share-link toast; it shows no toast at all unless persisting the
\* email or reading the credential throws, and then the one error toast of
\* the catch clause.
C3_NoCallWithoutToken ==
    ~HasItem(localStorage, "token") =>
        \A i \in DOMAIN submits :
            /\ Submit(i).call = <<>>
            /\ \A k \in DOMAIN Submit(i).toasts : IsErrorToast(Submit(i).toasts[k])
            /\ Submit(i).toasts # <<>> =>
                  /\ Submit(i).threw \in {"setItem", "getItem"}
                  /\ Len(Submit(i).toasts) = 1
            /\ Submit(i).threw \notin {"setItem", "getItem"} =>
                  Submit(i).toasts = <<>>

\* C3 witness: nothing is stored under "token", one submit completed
\* silently and another showed the error toast of a throwing storage access.
C3_Witness ==
    /\ ~HasItem(localStorage, "token")
    /\ \E i, j \in DOMAIN submits :
          /\ Submit(i).threw = "none" /\ Submit(i).status = "resolved"
          /\ Submit(j).threw = "setItem" /\ Submit(j).toasts # <<>>

\* C4: a submit whose call resolved with status 200 shows exactly the share
\* toast with link https://www.all-hands.dev/share?share_id=<feedback_id>
\* and the response's password; with any other status it shows exactly the
\* error toast holding the body's message; never both.
C4_ToastFollowsStatus ==
    \A i \in DOMAIN submits : \A k \in DOMAIN Submit(i).response :
        LET r == Submit(i).response[k]
            shown == Submit(i).toasts
        IN  /\ Len(shown) = 1
            /\ IF r.statusCode = 200
               THEN /\ shown[1].kind = "share"
                    /\ shown[1].link =
                         "https://www.all-hands.dev/share?share_id=" \o r.body.feedback_id
                    /\ shown[1].password = r.body.password
                    /\ shown[1].text = r.body.message
               ELSE /\ IsErrorToast(shown[1])
                    /\ shown[1].text = "FEEDBACK$FAILED_TO_SHARE " \o r.body.message
                    /\ shown[1].link = ""

\* C4 witness: one submit got a 200 response and another a 500 response.
C4_Witness ==
    \E i, j \in DOMAIN submits :
        /\ Submit(i).response # <<>> /\ Submit(i).response[1].statusCode = 200
        /\ Submit(j).response # <<>> /\ Submit(j).response[1].statusCode = 500

\* C5 as stated: whichever step of a submit throws, the error toast is shown
\* and the submit does not reject.
C5_AsClaimed ==
    \A i \in DOMAIN submits :
        Submit(i).threw # "none" =>
            /\ Submit(i).status # "rejected"
            /\ Len(Submit(i).toasts) = 1
            /\ IsErrorToast(Submit(i).toasts[1])

\* C5 amended: an error thrown by persisting the email, by reading the
\* credential or by the call is caught, shown as the error toast of prefix
\* and description, and the submit does not reject; an error thrown by the
\* caller notification or by the assembly of the record (getToken, the
\* sanitizing of the trajectory) is not caught: the submit rejects and no
\* toast is shown.
C5_CaughtInsideTry ==
    \A i \in DOMAIN submits :
        /\ Submit(i).threw \in {"setItem", "getItem"} =>
              /\ Submit(i).status = "resolved"
              /\ Submit(i).toasts =
                   << Toast("error", "share-error",
                            "FEEDBACK$FAILED_TO_SHARE Error: " \o Submit(i).threw,
                            "", "") >>
        /\ Submit(i).threw = "sendFeedback" =>
              /\ Submit(i).status = "resolved"
              /\ \E e \in Rejections :
                    Submit(i).toasts =
                      << Toast("error", "share-error",
                               "FEEDBACK$FAILED_TO_SHARE " \o e, "", "") >>
        /\ Submit(i).threw \in {"onSendFeedback", "getToken", "removeApiKey"} =>
              /\ Submit(i).status = "rejected"
              /\ Submit(i).toasts = <<>>

\* C5 witness: one submit threw in the caller notification or the storage
\* write, and the call of another was rejected.
C5_Witness ==
    \E i, j \in DOMAIN submits :
        /\ Submit(i).threw \in {"onSendFeedback", "setItem"}
        /\ Submit(j).threw = "sendFeedback"

IsPrefix(a, b) == Len(a) <= Len(b) /\ a = SubSeq(b, 1, Len(a))

\* C6 as stated: the caller is notified, then the email is written, then the
\* credential is read, then the service is called; no credential is read
\* from storage before the email has been persisted.
C6_AsClaimed ==
    \A i \in DOMAIN submits :
        LET e == Submit(i).effects
        IN  \A k \in DOMAIN e :
                e[k] \in {"getToken", "getItem"} =>
                    \E j \in 1..(k - 1) : e[j] = "setItem"

\* C6 amended: the side effects of a submit occur in this order: the caller
\* is notified, the record is assembled (getToken reads the credential, the
\* trajectory is sanitized), the email is written to storage, the credential
\* is read under "token", the service is called. The notification precedes
\* the call and any toast; the read whose value goes to the service follows
\* the write of the email, the read of getToken precedes it.
C6_OrderOfEffects ==
    \A i \in DOMAIN submits :
        /\ IsPrefix(Submit(i).effects,
                    << "onSendFeedback", "getToken", "removeApiKey",
                       "setItem", "getItem", "sendFeedback" >>)
        /\ Submit(i).toasts # <<>> => Len(Submit(i).effects) >= 1
        /\ Submit(i).call # <<>> => Len(Submit(i).effects) = Len(Steps)

\* C6 witness: a submit went through all its steps up to the call.
C6_Witness ==
    \E i \in DOMAIN submits :
        /\ Submit(i).call # <<>>
        /\ Last(Submit(i).effects) = "sendFeedback"

\* C7 as stated: every submit made with a stored credential issues exactly
\* one call, and once settled shows exactly one toast.
C7_AsClaimed ==
    TokenIsTruthy(localStorage) =>
        \A i \in DOMAIN submits :
            /\ Len(Submit(i).call) = 1
            /\ Submit(i).status = "resolved" => Len(Submit(i).toasts) = 1

\* C7 amended: a submit issues at most one call (no retry), and with a stored
\* credential exactly one unless a step before the call throws; once that
\* call settles, exactly one toast of that submit has fired, none before,
\* whether or not the dialog was closed or edited in between.
C7_OneCallOneToast ==
    \A i \in DOMAIN submits :
        /\ Len(Submit(i).call) <= 1
        /\ (TokenIsTruthy(localStorage)
              /\ Submit(i).threw \notin {"onSendFeedback", "getToken",
                                         "removeApiKey", "setItem", "getItem"})
              => Len(Submit(i).call) = 1
        /\ ~TokenIsTruthy(localStorage) => Submit(i).call = <<>>
        /\ Submit(i).call # <<>> =>
              /\ Submit(i).status \in {"pending", "resolved"}
              /\ Submit(i).status = "pending" => Submit(i).toasts = <<>>
              /\ Submit(i).status = "resolved" => Len(Submit(i).toasts) = 1

\* C7 witness: a call settled by rejection with its one toast while the
\* dialog was closed and the field had been edited since that submit.
C7_Witness ==
    \E i \in DOMAIN submits :
        /\ Submit(i).call # <<>>
        /\ Submit(i).threw = "sendFeedback"
        /\ Len(Submit(i).toasts) = 1
        /\ ~isOpen
        /\ email # Submit(i).call[1].feedback.email

\* C8 as stated: after a submit that ended in an error the dialog is open
\* unless Cancel closed it.
C8_AsClaimed ==
    \A i \in DOMAIN submits :
        EndedInError(i) => (isOpen \/ closedBy = "cancel")

\* C8 amended: the Share action closes the dialog as soon as submit has been
\* invoked, whatever its outcome; the settling of a call, in error or not,
\* never changes whether the dialog is open, and submit can be invoked again
\* once the caller has opened the dialog again.
C8_ErrorLeavesDialogAsItIs ==
    [][ /\ Submitted => (~isOpen' /\ closedBy' = "share")
        /\ (\E i \in DOMAIN submits : Settled(i)) =>
              (isOpen' = isOpen /\ closedBy' = closedBy)
        /\ (isOpen' # isOpen /\ ~Submitted) =>
              (closedBy' \in {"cancel", "none"} /\ submits' = submits) ]_vars

\* C8 witness: a submit ended in a failure response, the Share action had
\* closed the dialog, and a second submit was made after it.
C8_Witness ==
    /\ Len(submits) = 2
    /\ Submit(1).response # <<>>
    /\ Submit(1).response[1].statusCode # 200
    /\ ~isOpen
    /\ closedBy = "share"

\* C9 as stated: a submit that makes no call leaves the stored email as it
\* was.
C9_AsClaimed ==
    [][ (Submitted /\ Last(submits').call = <<>>) =>
            localStorage' = localStorage ]_vars

\* C9 amended: the stored "feedback-email" is written only by submit, and by
\* every submit that reaches the write without it throwing, with or without
\* a credential and whatever the outcome of the call; it then equals the
\* email field of that moment. Edits, Cancel, mounting, opening and the
\* settling of a call never change the storage.
C9_StoredBySubmitOnly ==
    [][ /\ localStorage' # localStorage => Submitted
        /\ Submitted =>
              IF \E k \in DOMAIN Last(submits').effects :
                     Last(submits').effects[k] = "setItem"
              THEN /\ HasItem(localStorage', "feedback-email")
                   /\ localStorage'["feedback-email"] = email
                   /\ DOMAIN localStorage' = DOMAIN localStorage \cup {"feedback-email"}
                   /\ \A k \in DOMAIN localStorage \ {"feedback-email"} :
                         localStorage'[k] = localStorage[k]
              ELSE localStorage' = localStorage ]_vars

\* C9 witness: with no credential stored, a submit made no call and the
\* stored email is the one of its record.
C9_Witness ==
    /\ ~TokenIsTruthy(localStorage)
    /\ Len(submits) = 1
    /\ Submit(1).threw = "none"
    /\ HasItem(localStorage, "feedback-email")
    /\ localStorage["feedback-email"] = Submit(1).record[1].email
    /\ localStorage["feedback-email"] = <<"a", "a", "@", "a", ".", "a">>

\* C10: the record given to the service holds the email and permissions of
\* the moment submit was invoked, version "1.0" and the caller's polarity;
\* no later step changes the record or call of an earlier submit, and the
\* settling of a call writes the toast of its own response into its own
\* submit and touches no other.
C10_RecordOfItsMoment ==
    [][ /\ \A i \in DOMAIN submits :
              /\ submits'[i].call = submits[i].call
              /\ submits'[i].record = submits[i].record
        /\ Submitted =>
              \A k \in DOMAIN Last(submits').call :
                  LET sent == Last(submits').call[k].feedback
                  IN  /\ sent.email = email
                      /\ sent.permissions = permissions
                      /\ sent.version = "1.0"
                      /\ sent.feedback = polarity
                      /\ Last(submits').record = <<sent>>
        /\ \A i \in DOMAIN submits :
              Settled(i) =>
                  /\ \A j \in DOMAIN submits \ {i} : submits'[j] = submits[j]
                  /\ \A k \in DOMAIN submits'[i].response :
                        LET r == submits'[i].response[k]
                        IN  submits'[i].toasts[1].text = 
                              IF r.statusCode = 200 THEN r.body.message
                              ELSE "FEEDBACK$FAILED_TO_SHARE " \o r.body.message ]_vars

\* C10 witness: two calls are in flight, the second made after the field and
\* the preference were changed, and each still holds its own record.
C10_Witness ==
    /\ Len(submits) = 2
    /\ Submit(1).status = "pending"
    /\ Submit(2).status = "pending"
    /\ Submit(1).call[1].feedback.email # Submit(2).call[1].feedback.email
    /\ Submit(1).call[1].feedback.permissions = "private"
    /\ Submit(2).call[1].feedback.permissions = "public"

====
